---- MODULE Spec2Model ----
(***************************************************************************)
(* ShellPort: a static analyser that reports shell command flags that are  *)
(* not portable across target platforms.  Text is modelled as a sequence   *)
(* of one-character strings, so that stripping, splitting and regular      *)
(* expression matching are computed character by character.                *)
(***************************************************************************)
EXTENDS Integers, Sequences, FiniteSets, TLC

VARIABLES
    pc,          \* position of the running operation
    cmd,         \* check_compat: argument cmd
    flags,       \* check_compat: argument flags
    targets,     \* check_compat / main: the set of target platforms
    findings,    \* check_compat: returned list
    line,        \* extract_commands: argument line
    invocations, \* extract_commands: returned list
    lines,       \* parse_file: the lines of the YAML file being read
    i,           \* parse_file: number of lines consumed by the YAML loop
    in_run,      \* parse_file: the run-block flag
    yielded,     \* parse_file: the (line number, text) pairs yielded so far
    tree,        \* the directory tree: the regular files under the root
    unreadable,  \* the paths of the files whose read_text raises OSError
    targetArg,   \* main: the --target argument
    paths,       \* scan: sorted(Path(root).rglob("*"))
    k,           \* scan: number of paths consumed by the loop
    results,     \* scan: the list of findings
    raised,      \* whether an exception escaped scan
    stdout,      \* main: what was printed
    stderr,      \* main: whether the exit message was written
    exitCode     \* main: the process exit status (-1 while running)

vars ==
    <<pc, cmd, flags, targets, findings, line, invocations, lines, i, in_run, yielded,
      tree, unreadable, targetArg, paths, k, results, raised, stdout, stderr, exitCode>>

(***************************************************************************)
(* Bounds of the model.                                                    *)
(***************************************************************************)
MaxFlags == 2
MaxLineLen == 5
MaxYamlLines == 3
MaxFiles == 2

(***************************************************************************)
(* Characters.                                                             *)
(***************************************************************************)
\* the printable ASCII characters, code points 32 to 126 in order (the backquote, which
\* a TLA+ string cannot hold, is spelled out; no modelled text has one)
Ascii ==
    <<" ","!","\"","#","$","%","&","'","(",")","*","+",",","-",".","/","0","1","2","3","4","5",
      "6","7","8","9",":",";","<","=",">","?","@","A","B","C","D","E","F","G","H","I","J","K",
      "L","M","N","O","P","Q","R","S","T","U","V","W","X","Y","Z","[","\\","]","^","_","(backquote)","a",
      "b","c","d","e","f","g","h","i","j","k","l","m","n","o","p","q","r","s","t","u","v","w",
      "x","y","z","{","|","}","~">>

\* ord(c)
CodePoint(c) ==
    IF c = "\t" THEN 9
    ELSE IF c = "\n" THEN 10
    ELSE 31 + (CHOOSE n \in 1..Len(Ascii) : Ascii[n] = c)

\* str.isspace for the characters of the model
IsSpace(c) ==
    c \in {" ", "\t", "\n"}

\* the regular expression class \w (ASCII part)
IsWord(c) ==
    LET n == CodePoint(c)
    IN  (n >= 48 /\ n <= 57) \/ (n >= 65 /\ n <= 90) \/ n = 95 \/ (n >= 97 /\ n <= 122)

\* str.upper on one character
Upper(c) ==
    LET n == CodePoint(c)
    IN  IF n >= 97 /\ n <= 122 THEN Ascii[n - 32 - 31] ELSE c

\* str comparison (<) of two texts: lexicographic by code point
StrLess(a, b) ==
    \E n \in 0..(IF Len(a) < Len(b) THEN Len(a) ELSE Len(b)) :
        /\ \A j \in 1..n : a[j] = b[j]
        /\ \/ n = Len(a) /\ n < Len(b)
           \/ n < Len(a) /\ n < Len(b) /\ CodePoint(a[n + 1]) < CodePoint(b[n + 1])

\* the Python str made of the characters of s
RECURSIVE Join(_)
Join(s) ==
    IF s = <<>> THEN "" ELSE Head(s) \o Join(Tail(s))

(***************************************************************************)
(* String operations used by the analyser.                                 *)
(***************************************************************************)
\* str.lstrip
RECURSIVE LStrip(_)
LStrip(s) ==
    IF s # <<>> /\ IsSpace(Head(s)) THEN LStrip(Tail(s)) ELSE s

\* str.rstrip
RECURSIVE RStrip(_)
RStrip(s) ==
    IF s # <<>> /\ IsSpace(s[Len(s)]) THEN RStrip(SubSeq(s, 1, Len(s) - 1)) ELSE s

\* str.strip
Strip(s) ==
    RStrip(LStrip(s))

\* s.startswith(p)
StartsWith(s, p) ==
    Len(s) >= Len(p) /\ SubSeq(s, 1, Len(p)) = p

\* the pieces of s between the characters c with IsSep(c); with runs = TRUE a run of
\* separators counts as one separator, as for the pattern [...]+
RECURSIVE SplitOn(_, _, _, _, _)
SplitOn(s, seps, runs, cur, prevSep) ==
    IF s = <<>> THEN <<cur>>
    ELSE IF Head(s) \in seps
         THEN IF runs /\ prevSep
              THEN SplitOn(Tail(s), seps, runs, cur, TRUE)
              ELSE <<cur>> \o SplitOn(Tail(s), seps, runs, <<>>, TRUE)
         ELSE SplitOn(Tail(s), seps, runs, Append(cur, Head(s)), FALSE)

\* re.sub(r"#.*$", "", line): the text before the first "#"
RECURSIVE StripComment(_)
StripComment(s) ==
    IF s = <<>> \/ Head(s) = "#" THEN <<>> ELSE <<Head(s)>> \o StripComment(Tail(s))

\* ReSplitSeparators with the line split on "|" alone
ReSplitPipesOnly(s) ==
    SplitOn(s, {"|"}, TRUE, <<>>, FALSE)

\* re.split(r"[|;&]+", line)
ReSplitSeparators(s) ==
    SplitOn(s, {"|", ";", "&"}, TRUE, <<>>, FALSE)

\* str.split(): the maximal runs of non-whitespace characters
SplitWhitespace(s) ==
    SelectSeq(SplitOn(s, {" ", "\t", "\n"}, TRUE, <<>>, FALSE), LAMBDA t : t # <<>>)

\* os.path.basename: the text after the last "/"
Basename(s) ==
    LET parts == SplitOn(s, {"/"}, FALSE, <<>>, FALSE)
    IN  parts[Len(parts)]

\* str.splitlines, for texts whose only line break is "\n"
SplitLines(s) ==
    LET parts == SplitOn(s, {"\n"}, FALSE, <<>>, FALSE)
    IN  IF parts[Len(parts)] = <<>> THEN SubSeq(parts, 1, Len(parts) - 1) ELSE parts

(***************************************************************************)
(* The compatibility database.                                             *)
(***************************************************************************)
PLATFORMS ==
    {"linux", "macos", "alpine"}

\* command -> flag -> the platforms that support the flag
FLAG_COMPAT ==
    ("sed" :> ("-i" :> {"linux", "alpine"}
        @@ "-r" :> {"linux", "alpine"}
        @@ "-E" :> {"linux", "macos", "alpine"}))
    @@
    ("grep" :> ("-P" :> {"linux"}
        @@ "-E" :> {"linux", "macos", "alpine"}
        @@ "-o" :> {"linux", "macos", "alpine"}
        @@ "-r" :> {"linux", "macos"}
        @@ "-R" :> {"linux", "macos", "alpine"}
        @@ "-w" :> {"linux", "macos", "alpine"}))
    @@
    ("readlink" :> ("-f" :> {"linux", "alpine"}
        @@ "-e" :> {"linux", "alpine"}))
    @@
    ("date" :> ("-d" :> {"linux", "alpine"}
        @@ "-j" :> {"macos"}
        @@ "-I" :> {"linux", "alpine"}))
    @@
    ("mktemp" :> ("-d" :> {"linux", "macos", "alpine"}
        @@ "--tmpdir" :> {"linux", "alpine"}))
    @@
    ("stat" :> ("-c" :> {"linux", "alpine"}
        @@ "-f" :> {"macos"}))
    @@
    ("find" :> ("-regextype" :> {"linux", "alpine"}
        @@ "-maxdepth" :> {"linux", "macos", "alpine"}
        @@ "-print0" :> {"linux", "macos", "alpine"}))
    @@
    ("sort" :> ("-V" :> {"linux", "alpine"}
        @@ "-h" :> {"linux", "alpine"}
        @@ "-R" :> {"linux"}))
    @@
    ("tar" :> ("--wildcards" :> {"linux", "alpine"}
        @@ "--exclude" :> {"linux", "macos", "alpine"}))
    @@
    ("xargs" :> ("-r" :> {"linux", "alpine"}
        @@ "-0" :> {"linux", "macos", "alpine"}))
    @@
    ("cp" :> ("--reflink" :> {"linux"}
        @@ "-a" :> {"linux", "macos", "alpine"}))
    @@
    ("ln" :> ("-r" :> {"linux", "alpine"}))
    @@
    ("install" :> ("-D" :> {"linux", "alpine"}))

\* (command, flag) -> the suggested portable rewrite
FIXES ==
    (<<"sed", "-i">> :> "sed -i.bak 's/.../' f && rm f.bak  (portable across GNU & BSD)")
    @@ (<<"sed", "-r">> :> "Use sed -E instead (portable extended regex)")
    @@ (<<"grep", "-P">> :> "Use grep -E (ERE) or install ripgrep for PCRE")
    @@ (<<"readlink", "-f">> :> "Use: cd $(dirname $0) && pwd -P  (POSIX alternative)")
    @@ (<<"readlink", "-e">> :> "Use: cd $(dirname $0) && pwd -P  (POSIX alternative)")
    @@ (<<"date", "-d">> :> "Use python3/perl for portable date arithmetic")
    @@ (<<"date", "-j">> :> "Use python3/perl for portable date arithmetic")
    @@ (<<"date", "-I">> :> "Use: date '+%Y-%m-%d'  (POSIX format string)")
    @@ (<<"stat", "-c">> :> "Write a wrapper: stat -c on Linux, stat -f on macOS")
    @@ (<<"stat", "-f">> :> "Write a wrapper: stat -c on Linux, stat -f on macOS")
    @@ (<<"sort", "-V">> :> "Use sort -t. -k1,1n -k2,2n for version-like sorting")
    @@ (<<"sort", "-R">> :> "Use: awk 'BEGIN{srand()}{print rand(),$0}' | sort -n | cut -d' ' -f2-")
    @@ (<<"xargs", "-r">> :> "Guard with: if [ -n \"$input\" ]; then ... fi")
    @@ (<<"cp", "--reflink">> :> "Use plain cp -a (loses reflink optimization)")
    @@ (<<"ln", "-r">> :> "Compute relative path manually with realpath")
    @@ (<<"install", "-D">> :> "mkdir -p $(dirname dest) && cp src dest")
    @@ (<<"find", "-regextype">> :> "Use -name with glob patterns instead")
    @@ (<<"tar", "--wildcards">> :> "Omit --wildcards (default on BSD tar)")

\* the characters of the platform names, for sorted()
NameChars ==
    ("alpine" :> <<"a","l","p","i","n","e">>)
    @@ ("freebsd" :> <<"f","r","e","e","b","s","d">>)
    @@ ("linux" :> <<"l","i","n","u","x">>)
    @@ ("macos" :> <<"m","a","c","o","s">>)
    @@ ("windows" :> <<"w","i","n","d","o","w","s">>)

\* sorted(S) for a set of platform names
RECURSIVE Sorted(_)
Sorted(S) ==
    IF S = {} THEN <<>>
    ELSE LET m == CHOOSE x \in S : \A y \in S \ {x} : StrLess(NameChars[x], NameChars[y])
         IN  <<m>> \o Sorted(S \ {m})

\* the elements of a list, as a set
Elems(s) ==
    {s[n] : n \in DOMAIN s}

\* the concatenation of the lists of a list
RECURSIVE Flatten(_)
Flatten(ss) ==
    IF ss = <<>> THEN <<>> ELSE Head(ss) \o Flatten(Tail(ss))

(***************************************************************************)
(* extract_commands                                                        *)
(***************************************************************************)
\* one iteration of the loop over the parts of the line
ExtractPart(part) ==
    LET tokens == SplitWhitespace(part)
    IN  IF tokens = <<>> THEN <<>>
        ELSE LET c == Join(Basename(tokens[1]))
                 fl == SelectSeq(Tail(tokens), LAMBDA t : StartsWith(t, <<"-">>))
             IN  IF c \in DOMAIN FLAG_COMPAT
                 THEN << <<c, [n \in 1..Len(fl) |-> Join(fl[n])]>> >>
                 ELSE <<>>

extract_commands(l) ==
    LET s == Strip(StripComment(l))
    IN  IF s = <<>> THEN <<>>
        ELSE LET parts == ReSplitSeparators(s)
             IN  Flatten([n \in 1..Len(parts) |-> ExtractPart(parts[n])])

(***************************************************************************)
(* check_compat                                                            *)
(***************************************************************************)
\* FLAG_COMPAT.get(cmd, {})
CompatGet(c) ==
    IF c \in DOMAIN FLAG_COMPAT THEN FLAG_COMPAT[c] ELSE <<>>

\* FIXES.get((cmd, flag), "Check POSIX spec for portable alternative")
FixGet(c, flag) ==
    IF <<c, flag>> \in DOMAIN FIXES THEN FIXES[<<c, flag>>]
    ELSE "Check POSIX spec for portable alternative"

\* CheckFlag with supported not restricted to the targets
CheckFlagAllSupported(c, flag, ts) ==
    LET db == CompatGet(c)
    IN  IF flag \in DOMAIN db
        THEN LET supported == db[flag]
                 missing == ts \ supported
             IN  IF missing # {}
                 THEN <<[command |-> c, flag |-> flag,
                         supported |-> Sorted(supported),
                         unsupported |-> Sorted(missing),
                         fix |-> FixGet(c, flag)]>>
                 ELSE <<>>
        ELSE <<>>

\* CheckFlag with a flag without an entry counted as supported nowhere
CheckFlagClosedWorld(c, flag, ts) ==
    LET db == CompatGet(c)
        supported == IF flag \in DOMAIN db THEN db[flag] ELSE {}
        missing == ts \ supported
    IN  IF missing # {}
        THEN <<[command |-> c, flag |-> flag,
                supported |-> Sorted(supported \cap ts),
                unsupported |-> Sorted(missing),
                fix |-> FixGet(c, flag)]>>
        ELSE <<>>

\* one iteration of the loop over the flags
CheckFlag(c, flag, ts) ==
    LET db == CompatGet(c)
    IN  IF flag \in DOMAIN db
        THEN LET supported == db[flag]
                 missing == ts \ supported
             IN  IF missing # {}
                 THEN <<[command |-> c, flag |-> flag,
                         supported |-> Sorted(supported \cap ts),
                         unsupported |-> Sorted(missing),
                         fix |-> FixGet(c, flag)]>>
                 ELSE <<>>
        ELSE <<>>

check_compat(c, fs, ts) ==
    Flatten([n \in 1..Len(fs) |-> CheckFlag(c, fs[n], ts)])

(***************************************************************************)
(* The texts the analyser compares names with.                             *)
(***************************************************************************)
SH == <<".","s","h">>
BASH == <<".","b","a","s","h">>
ZSH == <<".","z","s","h">>
YML == <<".","y","m","l">>
YAML == <<".","y","a","m","l">>
MK == <<".","m","k">>
MAKEFILE == <<"M","a","k","e","f","i","l","e">>
JUSTFILE == <<"J","u","s","t","f","i","l","e">>
DOCKERFILE == <<"D","o","c","k","e","r","f","i","l","e">>
GIT_DIR == <<".","g","i","t">>
RUN_PREFIX == <<"R","U","N"," ">>
RUN_KEY == <<"r","u","n">>

(***************************************************************************)
(* Paths.  A path is the sequence of its parts below the scan root; a part  *)
(* is a text.                                                              *)
(***************************************************************************)
SCAN_EXTS ==
    {SH, BASH, ZSH, YML, YAML, MK}

SCAN_NAMES ==
    {MAKEFILE, JUSTFILE, DOCKERFILE}

\* PurePath.name
PathName(p) ==
    p[Len(p)]

\* PurePath.suffix: the name from its last "." on, unless that "." is first or last
Suffix(name) ==
    LET dots == {n \in 1..Len(name) : name[n] = "."}
    IN  IF dots = {} THEN <<>>
        ELSE LET d == CHOOSE n \in dots : \A m \in dots : m <= n
             IN  IF 1 < d /\ d < Len(name) THEN SubSeq(name, d, Len(name)) ELSE <<>>

\* str(path.relative_to(root)): the parts joined by "/"
RECURSIVE PathStr(_)
PathStr(p) ==
    IF Len(p) = 1 THEN p[1] ELSE p[1] \o <<"/">> \o PathStr(Tail(p))

\* PurePath.__lt__: the lists of parts compared, element by element, as str
PathLess(p, q) ==
    \E n \in 0..(IF Len(p) < Len(q) THEN Len(p) ELSE Len(q)) :
        /\ \A j \in 1..n : p[j] = q[j]
        /\ \/ n = Len(p) /\ n < Len(q)
           \/ n < Len(p) /\ n < Len(q) /\ StrLess(p[n + 1], q[n + 1])

\* SortedPaths with the paths ordered as their strings
RECURSIVE SortedPathsByStr(_)
SortedPathsByStr(S) ==
    IF S = {} THEN <<>>
    ELSE LET m == CHOOSE x \in S : \A y \in S \ {x} : StrLess(PathStr(x), PathStr(y))
         IN  <<m>> \o SortedPathsByStr(S \ {m})

\* sorted(...) of a set of paths
RECURSIVE SortedPaths(_)
SortedPaths(S) ==
    IF S = {} THEN <<>>
    ELSE LET m == CHOOSE x \in S : \A y \in S \ {x} : PathLess(x, y)
         IN  <<m>> \o SortedPaths(S \ {m})

\* the paths of the regular files of the tree
FilePaths(t) ==
    {f.path : f \in t}

\* Path(root).rglob("*"): every file and every directory below the root
RGlob(t) ==
    UNION {{SubSeq(p, 1, n) : n \in 1..Len(p)} : p \in FilePaths(t)}

(***************************************************************************)
(* parse_file                                                              *)
(***************************************************************************)
\* Path(filepath).read_text(errors="ignore") in the tree t whose unreadable paths are
\* unr: the text, or OSError
ReadText(p, t, unr) ==
    IF p \in unr THEN [ok |-> FALSE, text |-> <<>>]
    ELSE [ok |-> TRUE, text |-> (CHOOSE f \in t : f.path = p).text]

\* re.match(r"run\s*:\s*\|?\s*$", s)
MatchRun(s) ==
    /\ StartsWith(s, RUN_KEY)
    /\ LET a == LStrip(SubSeq(s, Len(RUN_KEY) + 1, Len(s)))
       IN  /\ a # <<>>
           /\ Head(a) = ":"
           /\ LET b == LStrip(Tail(a))
                  c == IF b # <<>> /\ Head(b) = "|" THEN Tail(b) ELSE b
              IN  LStrip(c) = <<>>

\* the text left after the longest prefix of characters in [\w-]
RECURSIVE SkipKeyChars(_)
SkipKeyChars(s) ==
    IF s # <<>> /\ (IsWord(Head(s)) \/ Head(s) = "-") THEN SkipKeyChars(Tail(s)) ELSE s

\* re.match(r"^\w[\w-]*:", s)
MatchKey(s) ==
    /\ s # <<>>
    /\ IsWord(Head(s))
    /\ LET r == SkipKeyChars(Tail(s))
       IN  r # <<>> /\ Head(r) = ":"

\* YamlStep without the branch in which a key: line leaves the run block
YamlStepNoExit(st, n, l) ==
    LET s == Strip(l)
    IN  IF MatchRun(s)
        THEN [in_run |-> TRUE, out |-> st.out]
        ELSE IF st.in_run /\ s # <<>> /\ ~MatchKey(s)
        THEN [in_run |-> st.in_run, out |-> Append(st.out, <<n, s>>)]
        ELSE st

\* one iteration of the YAML loop: st is [in_run, out], n the line number, l the line
YamlStep(st, n, l) ==
    LET s == Strip(l)
    IN  IF MatchRun(s)
        THEN [in_run |-> TRUE, out |-> st.out]
        ELSE IF st.in_run /\ s # <<>> /\ ~MatchKey(s)
        THEN [in_run |-> st.in_run, out |-> Append(st.out, <<n, s>>)]
        ELSE IF MatchKey(s)
        THEN [in_run |-> FALSE, out |-> st.out]
        ELSE st

\* the YAML loop over the lines ls, from line number n on
RECURSIVE YamlLoop(_, _, _)
YamlLoop(st, n, ls) ==
    IF n > Len(ls) THEN st ELSE YamlLoop(YamlStep(st, n, ls[n]), n + 1, ls)

\* the shell branch: every line
ShellLines(ls) ==
    [n \in 1..Len(ls) |-> <<n, ls[n]>>]

\* the Dockerfile branch: the lines whose stripped, upper-cased text starts with "RUN "
DockerLines(ls) ==
    Flatten([n \in 1..Len(ls) |->
        LET s == Strip(ls[n])
        IN  IF StartsWith([j \in 1..Len(s) |-> Upper(s[j])], RUN_PREFIX)
            THEN << <<n, SubSeq(s, Len(RUN_PREFIX) + 1, Len(s))>> >>
            ELSE <<>>])

\* the Makefile / Justfile branch: the lines that start with a tab
RecipeLines(ls) ==
    Flatten([n \in 1..Len(ls) |->
        IF StartsWith(ls[n], <<"\t">>) THEN << <<n, Strip(ls[n])>> >> ELSE <<>>])

\* the branches of parse_file: the lines ls of the file at path p that are yielded
ParseLines(p, ls) ==
    LET name == PathName(p)
        ext == Suffix(name)
    IN  IF ext \in {SH, BASH, ZSH} THEN ShellLines(ls)
        ELSE IF name = DOCKERFILE THEN DockerLines(ls)
        ELSE IF name \in {MAKEFILE, JUSTFILE} THEN RecipeLines(ls)
        ELSE IF ext \in {YML, YAML}
        THEN YamlLoop([in_run |-> FALSE, out |-> <<>>], 1, ls).out
        ELSE <<>>

\* parse_file without the except clause: OSError escapes
parse_file_uncaught(p, t, unr) ==
    LET r == ReadText(p, t, unr)
    IN  IF ~r.ok THEN [raised |-> TRUE, items |-> <<>>]
        ELSE [raised |-> FALSE, items |-> ParseLines(p, SplitLines(r.text))]

\* the (line number, shell line) pairs parse_file yields for path p, and whether an
\* exception escapes it
parse_file(p, t, unr) ==
    LET r == ReadText(p, t, unr)
    IN  IF ~r.ok THEN [raised |-> FALSE, items |-> <<>>]
        ELSE [raised |-> FALSE, items |-> ParseLines(p, SplitLines(r.text))]

(***************************************************************************)
(* scan                                                                    *)
(***************************************************************************)
\* the findings of one yielded line, with file and line attached
LineFindings(p, item, ts) ==
    LET invs == extract_commands(item[2])
        found == Flatten([n \in 1..Len(invs) |-> check_compat(invs[n][1], invs[n][2], ts)])
    IN  [n \in 1..Len(found) |->
            [command |-> found[n].command, flag |-> found[n].flag,
             supported |-> found[n].supported, unsupported |-> found[n].unsupported,
             fix |-> found[n].fix, file |-> PathStr(p), line |-> item[1]]]

\* one iteration of the loop over the sorted paths
ScanPath(p, ts, t, unr) ==
    IF p \notin FilePaths(t) \/ GIT_DIR \in Elems(p)
    THEN [raised |-> FALSE, found |-> <<>>]
    ELSE IF Suffix(PathName(p)) \in SCAN_EXTS \/ PathName(p) \in SCAN_NAMES
    THEN LET r == parse_file(p, t, unr)
         IN  IF r.raised THEN [raised |-> TRUE, found |-> <<>>]
             ELSE [raised |-> FALSE,
                   found |-> Flatten([n \in 1..Len(r.items) |->
                                         LineFindings(p, r.items[n], ts)])]
    ELSE [raised |-> FALSE, found |-> <<>>]

\* the loop of scan over the sorted paths ps, with the findings so far
RECURSIVE ScanLoop(_, _, _, _, _)
ScanLoop(ps, acc, ts, t, unr) ==
    IF ps = <<>> THEN [raised |-> FALSE, found |-> acc]
    ELSE LET r == ScanPath(Head(ps), ts, t, unr)
         IN  IF r.raised THEN [raised |-> TRUE, found |-> acc]
             ELSE ScanLoop(Tail(ps), acc \o r.found, ts, t, unr)

\* scan(root, targets) for the tree t whose unreadable paths are unr
scan(t, unr, ts) ==
    ScanLoop(SortedPaths(RGlob(t)), <<>>, ts, t, unr)

(***************************************************************************)
(* main                                                                    *)
(***************************************************************************)
\* set(args.target.split(","))
ParseTargets(arg) ==
    LET pieces == SplitOn(arg, {","}, FALSE, <<>>, FALSE)
    IN  {Join(pieces[n]) : n \in 1..Len(pieces)}

\* format_text
format_text(rs) ==
    IF rs = <<>> THEN <<[text |-> "No portability issues found."]>>
    ELSE [n \in 1..Len(rs) |->
             [file |-> rs[n].file, line |-> rs[n].line,
              label |-> IF rs[n].supported # <<>> THEN "WARNING" ELSE "ERROR",
              command |-> rs[n].command, flag |-> rs[n].flag,
              missing |-> rs[n].unsupported, fix |-> rs[n].fix]]

\* ExitStatus with the findings ignored
ExitStatusZero(rs) ==
    0

\* the argument of the final sys.exit
ExitStatus(rs) ==
    IF rs # <<>> THEN 1 ELSE 0

(***************************************************************************)
(* Inputs.                                                                 *)
(***************************************************************************)
\* the sequences over S of length at most n
BoundedSeq(S, n) ==
    UNION {[1..m -> S] : m \in 0..n}

\* 'run: |\ngrep -P x f\nRUN grep -P x f\n\tgrep -P x f\n'
OmnibusText ==
    <<"r","u","n",":"," ","|","\n","g","r","e","p"," ","-","P"," ","x"," ","f","\n","R","U","N",
      " ","g","r","e","p"," ","-","P"," ","x"," ","f","\n","\t","g","r","e","p"," ","-","P"," ",
      "x"," ","f","\n">>

\* '#!/bin/sh\nsed -i s f; grep -P y f\necho ok # date -j\n'
ShellText ==
    <<"#","!","/","b","i","n","/","s","h","\n","s","e","d"," ","-","i"," ","s"," ","f",";"," ",
      "g","r","e","p"," ","-","P"," ","y"," ","f","\n","e","c","h","o"," ","o","k"," ","#"," ",
      "d","a","t","e"," ","-","j","\n">>

\* "name: CI\njobs:\n  build:\n    steps:\n      - run: grep -P 'test' file\n"
InlineRunYaml ==
    <<"n","a","m","e",":"," ","C","I","\n","j","o","b","s",":","\n"," "," ","b","u","i","l","d",
      ":","\n"," "," "," "," ","s","t","e","p","s",":","\n"," "," "," "," "," "," ","-"," ","r",
      "u","n",":"," ","g","r","e","p"," ","-","P"," ","'","t","e","s","t","'"," ","f","i","l",
      "e","\n">>

\* "steps:\n  - run: |\n      readlink -f /opt\n      date -d 'yesterday'\n"
ListItemRunYaml ==
    <<"s","t","e","p","s",":","\n"," "," ","-"," ","r","u","n",":"," ","|","\n"," "," "," "," ",
      " "," ","r","e","a","d","l","i","n","k"," ","-","f"," ","/","o","p","t","\n"," "," "," ",
      " "," "," ","d","a","t","e"," ","-","d"," ","'","y","e","s","t","e","r","d","a","y","'",
      "\n">>

\* "steps:\n  - name: test\n    run: |\n      grep -P 'x' f\n"
BlockRunYaml ==
    <<"s","t","e","p","s",":","\n"," "," ","-"," ","n","a","m","e",":"," ","t","e","s","t","\n",
      " "," "," "," ","r","u","n",":"," ","|","\n"," "," "," "," "," "," ","g","r","e","p"," ",
      "-","P"," ","'","x","'"," ","f","\n">>

\* the files a tree is built from
CandidateFiles ==
    {[path |-> <<<<"a">>, <<"x",".","s","h">>>>,
      text |-> OmnibusText],
     [path |-> <<<<"a",".","s","h">>>>,
      text |-> ShellText],
     [path |-> <<<<"b",".","b","a","s","h">>>>,
      text |-> OmnibusText],
     [path |-> <<<<"c",".","z","s","h">>>>,
      text |-> OmnibusText],
     [path |-> <<<<"c","i",".","y","m","l">>>>,
      text |-> InlineRunYaml],
     [path |-> <<<<"d","e","p","l","o","y",".","y","a","m","l">>>>,
      text |-> ListItemRunYaml],
     [path |-> <<<<"o","k",".","y","m","l">>>>,
      text |-> BlockRunYaml],
     [path |-> <<<<"o",".","y","m","l">>>>,
      text |-> OmnibusText],
     [path |-> <<<<"o",".","y","a","m","l">>>>,
      text |-> OmnibusText],
     [path |-> <<<<"r","u","l","e","s",".","m","k">>>>,
      text |-> OmnibusText],
     [path |-> <<<<"M","a","k","e","f","i","l","e">>>>,
      text |-> OmnibusText],
     [path |-> <<<<"J","u","s","t","f","i","l","e">>>>,
      text |-> OmnibusText],
     [path |-> <<<<"D","o","c","k","e","r","f","i","l","e">>>>,
      text |-> OmnibusText],
     [path |-> <<<<"n","o","t","e","s",".","t","x","t">>>>,
      text |-> OmnibusText],
     [path |-> <<<<".","g","i","t">>, <<"h","o","o","k",".","s","h">>>>,
      text |-> OmnibusText]}

\* the trees: at most MaxFiles files, no two with the same path
Trees ==
    {t \in SUBSET CandidateFiles :
        Cardinality(t) <= MaxFiles /\ Cardinality(FilePaths(t)) = Cardinality(t)}

\* the values of --target: 'linux,macos,alpine', 'linux,macos', 'linux', 'linux,windows',
\* 'macos,'
TargetArgs ==
    {<<"l","i","n","u","x",",","m","a","c","o","s",",","a","l","p","i","n","e">>,
     <<"l","i","n","u","x",",","m","a","c","o","s">>,
     <<"l","i","n","u","x">>,
     <<"l","i","n","u","x",",","w","i","n","d","o","w","s">>,
     <<"m","a","c","o","s",",">>}

\* the lines of a YAML file: '    run: |', 'run:', 'run :  |', '  - run: |', 'run: grep -P x f', '      grep -P x f', 'name: test', '', '-v: x', 'my-key:', '   ', 'echo a:b'
YamlLines ==
    {<<" "," "," "," ","r","u","n",":"," ","|">>,
     <<"r","u","n",":">>,
     <<"r","u","n"," ",":"," "," ","|">>,
     <<" "," ","-"," ","r","u","n",":"," ","|">>,
     <<"r","u","n",":"," ","g","r","e","p"," ","-","P"," ","x"," ","f">>,
     <<" "," "," "," "," "," ","g","r","e","p"," ","-","P"," ","x"," ","f">>,
     <<"n","a","m","e",":"," ","t","e","s","t">>,
     <<>>,
     <<"-","v",":"," ","x">>,
     <<"m","y","-","k","e","y",":">>,
     <<" "," "," ">>,
     <<"e","c","h","o"," ","a",":","b">>}

\* lines handed to extract_commands in full
\*   sed -i 's/foo/bar/' file.txt
\*   cat file | grep -P 'pattern' | sort -V
\*   readlink -f /tmp && date -d '1 day'
\*   grep -P 'foo' f; sed -i 's/a/b/' f
\*   /usr/bin/grep -P x # | sed -i
\*   # grep -P foo
ExtractSamples ==
    {<<"s","e","d"," ","-","i"," ","'","s","/","f","o","o","/","b","a","r","/","'"," ","f","i",
      "l","e",".","t","x","t">>,
     <<"c","a","t"," ","f","i","l","e"," ","|"," ","g","r","e","p"," ","-","P"," ","'","p","a",
      "t","t","e","r","n","'"," ","|"," ","s","o","r","t"," ","-","V">>,
     <<"r","e","a","d","l","i","n","k"," ","-","f"," ","/","t","m","p"," ","&","&"," ","d","a",
      "t","e"," ","-","d"," ","'","1"," ","d","a","y","'">>,
     <<"g","r","e","p"," ","-","P"," ","'","f","o","o","'"," ","f",";"," ","s","e","d"," ","-",
      "i"," ","'","s","/","a","/","b","/","'"," ","f">>,
     <<"/","u","s","r","/","b","i","n","/","g","r","e","p"," ","-","P"," ","x"," ","#"," ","|",
      " ","s","e","d"," ","-","i">>,
     <<"#"," ","g","r","e","p"," ","-","P"," ","f","o","o">>}

\* the characters of the short lines handed to extract_commands
ExtractChars ==
    {"c", "p", " ", "|", ";", "&", "#", "-", "/"}

\* the arguments of check_compat
CompatCmds ==
    {"grep", "sed", "date", "stat", "echo"}

CompatFlags ==
    {"-P", "-E", "-i", "-j", "-f", "-z"}

CompatTargets ==
    PLATFORMS \cup {"freebsd"}


(***************************************************************************)
(* The state machines.                                                     *)
(***************************************************************************)
NoOutput ==
    [fmt |-> "none", body |-> <<>>]

\* the state of an operation that is not running
IdleCompat ==
    cmd = "" /\ flags = <<>> /\ findings = <<>>

IdleExtract ==
    line = <<>> /\ invocations = <<>>

IdleYaml ==
    lines = <<>> /\ i = 0 /\ in_run = FALSE /\ yielded = <<>>

IdleMain ==
    /\ tree = {} /\ unreadable = {} /\ targetArg = <<>>
    /\ paths = <<>> /\ k = 0 /\ results = <<>> /\ raised = FALSE
    /\ stdout = NoOutput /\ stderr = FALSE /\ exitCode = -1

\* ---- check_compat(cmd, flags, targets) ----
InitCompat ==
    /\ pc = "check_compat"
    /\ cmd \in CompatCmds
    /\ flags \in BoundedSeq(CompatFlags, MaxFlags)
    /\ targets \in SUBSET CompatTargets
    /\ findings = <<>>
    /\ IdleExtract /\ IdleYaml /\ IdleMain

CheckCompat ==
    /\ pc = "check_compat"
    /\ findings' = check_compat(cmd, flags, targets)
    /\ pc' = "done"
    /\ UNCHANGED <<cmd, flags, targets, line, invocations, lines, i, in_run, yielded, tree,
                   unreadable, targetArg, paths, k, results, raised, stdout, stderr, exitCode>>

SpecCompat ==
    InitCompat /\ [][CheckCompat]_vars

\* ---- extract_commands(line) ----
InitExtract ==
    /\ pc = "extract_commands"
    /\ line \in BoundedSeq(ExtractChars, MaxLineLen) \cup ExtractSamples
    /\ invocations = <<>>
    /\ targets = {}
    /\ IdleCompat /\ IdleYaml /\ IdleMain

ExtractCommands ==
    /\ pc = "extract_commands"
    /\ invocations' = extract_commands(line)
    /\ pc' = "done"
    /\ UNCHANGED <<cmd, flags, targets, findings, line, lines, i, in_run, yielded, tree,
                   unreadable, targetArg, paths, k, results, raised, stdout, stderr, exitCode>>

SpecExtract ==
    InitExtract /\ [][ExtractCommands]_vars

\* ---- parse_file: the loop over the lines of a YAML file ----
InitYaml ==
    /\ pc = "parse_file"
    /\ lines \in BoundedSeq(YamlLines, MaxYamlLines)
    /\ i = 0
    /\ in_run = FALSE
    /\ yielded = <<>>
    /\ targets = {}
    /\ IdleCompat /\ IdleExtract /\ IdleMain

YamlLine ==
    /\ pc = "parse_file"
    /\ i < Len(lines)
    /\ LET st == YamlStep([in_run |-> in_run, out |-> yielded], i + 1, lines[i + 1])
       IN  in_run' = st.in_run /\ yielded' = st.out
    /\ i' = i + 1
    /\ UNCHANGED <<pc, cmd, flags, targets, findings, line, invocations, lines, tree,
                   unreadable, targetArg, paths, k, results, raised, stdout, stderr, exitCode>>

SpecYaml ==
    InitYaml /\ [][YamlLine]_vars

\* ---- main: shellport scan <root> --target <targetArg> --format <fmt> ----
Init ==
    /\ pc = "main"
    /\ tree \in Trees
    /\ unreadable \in SUBSET FilePaths(tree)
    /\ targetArg \in TargetArgs
    /\ targets = {}
    /\ paths = <<>> /\ k = 0 /\ results = <<>> /\ raised = FALSE
    /\ stdout = NoOutput /\ stderr = FALSE /\ exitCode = -1
    /\ IdleCompat /\ IdleExtract /\ IdleYaml

\* main up to the call of scan, and scan up to its loop
MainStart ==
    /\ pc = "main"
    /\ targets' = ParseTargets(targetArg)
    /\ IF targets' \ PLATFORMS # {}
       THEN /\ stderr' = TRUE
            /\ exitCode' = 1
            /\ pc' = "exited"
            /\ UNCHANGED <<paths, k, results>>
       ELSE /\ results' = <<>>
            /\ paths' = SortedPaths(RGlob(tree))
            /\ k' = 0
            /\ pc' = "scan"
            /\ UNCHANGED <<stderr, exitCode>>
    /\ UNCHANGED <<cmd, flags, findings, line, invocations, lines, i, in_run, yielded, tree,
                   unreadable, targetArg, raised, stdout>>

\* one iteration of the loop of scan
ScanFile ==
    /\ pc = "scan"
    /\ k < Len(paths)
    /\ LET r == ScanPath(paths[k + 1], targets, tree, unreadable)
       IN  IF r.raised
           THEN /\ raised' = TRUE
                /\ stderr' = TRUE
                /\ exitCode' = 1
                /\ pc' = "exited"
                /\ UNCHANGED <<k, results>>
           ELSE /\ results' = results \o r.found
                /\ k' = k + 1
                /\ UNCHANGED <<pc, raised, stderr, exitCode>>
    /\ UNCHANGED <<cmd, flags, targets, findings, line, invocations, lines, i, in_run, yielded,
                   tree, unreadable, targetArg, paths, stdout>>

\* scan returns; main prints the results and exits
MainFinish ==
    /\ pc = "scan"
    /\ k = Len(paths)
    /\ \E f \in {"text", "json"} :
           stdout' = [fmt |-> f, body |-> IF f = "json" THEN results ELSE format_text(results)]
    /\ exitCode' = ExitStatus(results)
    /\ pc' = "exited"
    /\ UNCHANGED <<cmd, flags, targets, findings, line, invocations, lines, i, in_run, yielded,
                   tree, unreadable, targetArg, paths, k, results, raised, stderr>>

Next ==
    MainStart \/ ScanFile \/ MainFinish

Spec ==
    Init /\ [][Next]_vars

(***************************************************************************)
(* Properties of check_compat, under SpecCompat.                           *)
(***************************************************************************)
\* (command, flag) has an entry in the knowledge base
Known(c, flag) ==
    c \in DOMAIN FLAG_COMPAT /\ flag \in DOMAIN FLAG_COMPAT[c]

\* C1: for a (command, flag) present in the knowledge base, a finding carries
\* supported = knownSupport \cap targets and unsupported = targets \ knownSupport, the
\* two partition the targets, and a finding is emitted for the flag if and only if
\* unsupported is not empty.
C1_SupportPartition ==
    pc = "done" =>
        /\ \A n \in DOMAIN findings :
               LET f == findings[n]
                   sup == Elems(f.supported)
                   uns == Elems(f.unsupported)
               IN  Known(cmd, f.flag) =>
                       /\ sup = FLAG_COMPAT[cmd][f.flag] \cap targets
                       /\ uns = targets \ FLAG_COMPAT[cmd][f.flag]
                       /\ sup \cup uns = targets
                       /\ sup \cap uns = {}
                       /\ Len(f.supported) = Cardinality(sup)
                       /\ Len(f.unsupported) = Cardinality(uns)
                       /\ uns # {}
        /\ \A m \in DOMAIN flags :
               Known(cmd, flags[m]) =>
                   ((\E n \in DOMAIN findings : findings[n].flag = flags[m])
                        <=> targets \ FLAG_COMPAT[cmd][flags[m]] # {})

\* check_compat("grep", ["-P", "-E"], {"linux", "macos"}): one finding, for -P
C1_Witness ==
    /\ pc = "done"
    /\ cmd = "grep" /\ flags = <<"-P", "-E">> /\ targets = {"linux", "macos"}
    /\ Len(findings) = 1
    /\ findings[1].flag = "-P"
    /\ findings[1].supported = <<"linux">>
    /\ findings[1].unsupported = <<"macos">>

\* C2: a (command, flag) absent from the knowledge base yields no finding, whatever
\* the targets: every finding is for a flag with an entry, and flags that all lack
\* an entry give the empty list.
C2_AbsentFlagNoFinding ==
    pc = "done" =>
        /\ \A n \in DOMAIN findings : Known(cmd, findings[n].flag)
        /\ (\A m \in DOMAIN flags : ~Known(cmd, flags[m])) => findings = <<>>

\* check_compat("grep", ["-z", "-i"], {"linux", "macos", "alpine"}): a known command
\* with two flags that have no entry
C2_Witness ==
    /\ pc = "done"
    /\ cmd = "grep" /\ flags = <<"-z", "-i">> /\ targets = PLATFORMS
    /\ findings = <<>>

(***************************************************************************)
(* Properties of extract_commands, under SpecExtract.                      *)
(***************************************************************************)
\* the line without its comment: the text before the first "#"
C6_Uncommented(l) ==
    LET hs == {n \in 1..Len(l) : l[n] = "#"}
    IN  IF hs = {} THEN l
        ELSE SubSeq(l, 1, (CHOOSE n \in hs : \A m \in hs : n <= m) - 1)

C6_IsSeparator(c) ==
    c \in {"|", ";", "&"}

\* the segments of s, as <<first, last>> positions: the maximal stretches without a
\* separator that hold a character other than whitespace
C6_Segments(s) ==
    {seg \in (1..Len(s)) \X (1..Len(s)) :
        /\ seg[1] <= seg[2]
        /\ \A n \in seg[1]..seg[2] : ~C6_IsSeparator(s[n])
        /\ seg[1] = 1 \/ C6_IsSeparator(s[seg[1] - 1])
        /\ seg[2] = Len(s) \/ C6_IsSeparator(s[seg[2] + 1])
        /\ \E n \in seg[1]..seg[2] : ~IsSpace(s[n])}

\* the command name of a segment: its first word, after the last "/" of that word
C6_CommandName(s, seg) ==
    LET first == CHOOSE n \in seg[1]..seg[2] :
                     ~IsSpace(s[n]) /\ \A m \in seg[1]..(n - 1) : IsSpace(s[m])
        last == CHOOSE n \in first..seg[2] :
                    /\ \A m \in first..n : ~IsSpace(s[m])
                    /\ n = seg[2] \/ IsSpace(s[n + 1])
        from == CHOOSE n \in first..(last + 1) :
                    /\ n = first \/ s[n - 1] = "/"
                    /\ \A m \in n..last : s[m] # "/"
    IN  Join(SubSeq(s, from, last))

\* the segments whose command name is in the knowledge base
C6_Recognized(s) ==
    {seg \in C6_Segments(s) : C6_CommandName(s, seg) \in DOMAIN FLAG_COMPAT}

\* C6: extract_commands yields exactly one invocation per non-empty segment of the
\* comment-stripped line whose command name is in the knowledge base, in segment
\* order, and none for the other segments.
C6_OneInvocationPerSegment ==
    pc = "done" =>
        LET s == C6_Uncommented(line)
            rec == C6_Recognized(s)
        IN  /\ Len(invocations) = Cardinality(rec)
            /\ \A seg \in rec :
                   invocations[Cardinality({t \in rec : t[1] < seg[1]}) + 1][1]
                       = C6_CommandName(s, seg)

\* "cat file | grep -P 'pattern' | sort -V": three segments, two of them recognized
C6_Witness ==
    /\ pc = "done"
    /\ Cardinality(C6_Segments(C6_Uncommented(line))) = 3
    /\ invocations = << <<"grep", <<"-P">>>>, <<"sort", <<"-V">>>> >>

(***************************************************************************)
(* Properties of the run-block tracker of parse_file, under SpecYaml.      *)
(***************************************************************************)
\* the trimmed line is run, whitespace, a colon, whitespace, and at most a "|"
C10_OpensRunBlock(s) ==
    \E a \in 0..Len(s), b \in 0..Len(s), bar \in 0..1 :
        /\ Len(s) = 4 + a + b + bar
        /\ SubSeq(s, 1, 3) = RUN_KEY
        /\ \A n \in 4..(3 + a) : IsSpace(s[n])
        /\ s[4 + a] = ":"
        /\ \A n \in (5 + a)..(4 + a + b) : IsSpace(s[n])
        /\ bar = 1 => s[Len(s)] = "|"

\* the trimmed line starts with a key: a word character, then word characters or
\* hyphens, immediately followed by ":"
C10_IsKeyLine(s) ==
    \E n \in 1..(Len(s) - 1) :
        /\ IsWord(s[1])
        /\ \A j \in 1..n : IsWord(s[j]) \/ s[j] = "-"
        /\ s[n + 1] = ":"

\* the two-state machine after the first n lines: its state and what it has yielded
RECURSIVE C10_Machine(_)
C10_Machine(n) ==
    IF n = 0 THEN [state |-> "Outside", out |-> <<>>]
    ELSE LET prev == C10_Machine(n - 1)
             s == Strip(lines[n])
         IN  IF C10_OpensRunBlock(s) THEN [state |-> "InRunBlock", out |-> prev.out]
             ELSE IF C10_IsKeyLine(s) THEN [state |-> "Outside", out |-> prev.out]
             ELSE [state |-> prev.state,
                   out |-> IF prev.state = "InRunBlock" /\ s # <<>>
                           THEN Append(prev.out, <<n, s>>)
                           ELSE prev.out]

ValidTargets ==
    ParseTargets(targetArg) \subseteq PLATFORMS

\* main has returned from scan and exited
Scanned ==
    pc = "exited" /\ ValidTargets /\ ~raised

\* the file f of the tree is one scan reads: eligible, readable, outside .git
IsScannedFile(f) ==
    /\ f \in tree
    /\ f.path \notin unreadable
    /\ GIT_DIR \notin Elems(f.path)
    /\ Suffix(PathName(f.path)) \in SCAN_EXTS \/ PathName(f.path) \in SCAN_NAMES

\* the parts of a reported file path
C3_Parts(file) ==
    SplitOn(file, {"/"}, FALSE, <<>>, FALSE)

\* C3 as stated: the findings are ordered by the file path as a string, then by line
\* number: for i < j, (file_i, line_i) <= (file_j, line_j).
C3_OrderedByPathString ==
    Scanned =>
        \A a \in DOMAIN results, b \in DOMAIN results :
            a < b =>
                \/ StrLess(results[a].file, results[b].file)
                \/ results[a].file = results[b].file /\ results[a].line <= results[b].line

\* C3 as amended: the findings are ordered by the file path compared part by part
\* (the list of directory and file names, each compared as a string), then by line
\* number.
C3_OrderedByPathParts ==
    Scanned =>
        \A a \in DOMAIN results, b \in DOMAIN results :
            a < b =>
                \/ PathLess(C3_Parts(results[a].file), C3_Parts(results[b].file))
                \/ results[a].file = results[b].file /\ results[a].line <= results[b].line

\* a/x.sh is reported before a.sh, although "a.sh" < "a/x.sh" as strings
C3_Witness ==
    /\ Scanned
    /\ \E a \in DOMAIN results, b \in DOMAIN results :
           /\ a < b
           /\ results[a].file = PathStr(<<<<"a">>, <<"x",".","s","h">>>>)
           /\ results[b].file = PathStr(<<<<"a",".","s","h">>>>)
           /\ StrLess(results[b].file, results[a].file)

\* C4: a YAML file with the command on the run line itself (- run: grep -P 'test' file),
\* scanned against {linux, macos}, yields a finding for grep -P.
C4_InlineRunFound ==
    (/\ Scanned
     /\ targets = {"linux", "macos"}
     /\ \E f \in tree : IsScannedFile(f) /\ f.text = InlineRunYaml
                          /\ Suffix(PathName(f.path)) \in {YML, YAML})
        => \E n \in DOMAIN results : results[n].command = "grep" /\ results[n].flag = "-P"

\* C5: a YAML file whose run block is opened by a list item (- run: |), with body lines
\* readlink -f and date -d, yields findings for those commands.
C5_ListItemRunFound ==
    (/\ Scanned
     /\ targets = {"linux", "macos"}
     /\ \E f \in tree : IsScannedFile(f) /\ f.text = ListItemRunYaml
                          /\ Suffix(PathName(f.path)) \in {YML, YAML})
        => \E n \in DOMAIN results : results[n].command \in {"readlink", "date"}

\* C7: the exit status is 0 with no findings and 1 with findings; a --target name that
\* is no known platform ends the process with a non-zero status before any scan work,
\* and nothing is printed to standard output.
C7_ExitStatus ==
    pc = "exited" /\ ~raised =>
        IF ValidTargets
        THEN /\ exitCode = (IF Len(results) = 0 THEN 0 ELSE 1)
             /\ results = scan(tree, unreadable, targets).found
             /\ stdout.fmt # "none"
        ELSE /\ exitCode # 0
             /\ paths = <<>> /\ k = 0 /\ results = <<>>
             /\ stdout = NoOutput
             /\ stderr

\* --target linux,windows on a tree with a file that has findings: exit 1, no scan
C7_Witness ==
    /\ pc = "exited"
    /\ ~ValidTargets
    /\ \E f \in tree : IsScannedFile(f) /\ f.text = ShellText
    /\ exitCode = 1
    /\ results = <<>>
    /\ stdout = NoOutput

\* the tree without its unreadable files
ReadableTree ==
    {f \in tree : f.path \notin unreadable}

\* C8: an eligible file that cannot be read is skipped without raising, and the result
\* is that of scanning the tree without the file.
C8_UnreadableSkipped ==
    pc = "exited" /\ ValidTargets =>
        /\ ~raised
        /\ results = scan(ReadableTree, {}, targets).found

\* a.sh cannot be read and b.bash, scanned after it, still reports its findings
C8_Witness ==
    /\ Scanned
    /\ FilePaths(tree) = {<<<<"a",".","s","h">>>>, <<<<"b",".","b","a","s","h">>>>}
    /\ unreadable = {<<<<"a",".","s","h">>>>}
    /\ Len(results) = 2
    /\ results[1].file = PathStr(<<<<"b",".","b","a","s","h">>>>)

\* C9: every recognized file type is scanned: a readable file of a recognized extension
\* or name that holds a line invoking grep -P in each form parse_file reads (verbatim,
\* in a run: block, after RUN, after a tab) yields a finding when macos is a target.
C9_EveryRecognizedTypeScanned ==
    (/\ Scanned
     /\ "macos" \in targets
     /\ \E f \in tree : IsScannedFile(f) /\ f.text = OmnibusText)
        => results # <<>>
====
